---- MODULE Spec2Model ----
(***************************************************************************)
(* Order creation, cancellation, cart and discount handling of the         *)
(* e-commerce backend (routes/orders.js, routes/cart.js,                   *)
(* routes/discount.js, routes/products.js, workers/order-processor.js).    *)
(*                                                                         *)
(* Each HTTP handler is a sequence of awaited database calls.  A handler   *)
(* is split where it awaits a read whose result it uses later: the reads   *)
(* before a prisma.$transaction are separate steps, the transaction body   *)
(* is one step that either commits all its writes or none of them.         *)
(*                                                                         *)
(* Money: stored amounts (DECIMAL(10,2) columns, toFixed(2) strings) are   *)
(* integers in hundredths of a currency unit ("cents").  The handler's     *)
(* in-memory JavaScript numbers are integers in 1/10000 of a currency unit *)
(* ("fine" units), so that a percentage of a cent amount is exact and      *)
(* toFixed(2) is a real rounding step.                                     *)
(***************************************************************************)
EXTENDS Integers, Sequences, FiniteSets, TLC

\* ------------------------------------------------------------------ bounds
MaxOrders == 2          \* orders ever created under Spec
MaxOrdersSerial == 2    \* orders ever created under the one-request specifications
MaxOrdersStatus == 1    \* orders ever created under SpecStatus
MaxStock == 2           \* no cancellation begins under SpecStatus above this stock
MaxVariants == 3        \* product variants ever created
MaxCart == 2            \* cart lines ever created, and largest Cart.totalQuantity
MaxOrdersPreview == 2   \* orders ever created under SpecPreview
MaxNow == 1             \* largest value of the clock
MaxOrdersThrottle == 1  \* orders ever created under SpecThrottle
MaxAttempts == 2        \* attempts BullMQ makes of one job
MaxAdmitted == 11       \* admissions, and hits, of one key of the limiter
MaxStalled == 1        \* times a job is put back after its worker died (maxStalledCount)

\* ---------------------------------------------------------- program values
NULL == "null"

COD_SURCHARGE == 100
max == 10               \* hits of one key the limiter admits
windowMs == 1           \* the life of a key, in clock ticks of 10 minutes

Reqs == {"r1", "r2"}
Cancels == {"x1", "x2"}
Products == {"p1"}
CustomProducts == {"c1"}

VariantId(n) == "v" \o ToString(n)
LineId(n) == "l" \o ToString(n)
OrderId(n) == "o" \o ToString(n)

AllVariantIds == {VariantId(n) : n \in 1..MaxVariants}

VARIABLES
  variants,           \* ProductVariant rows: id -> [productId, inventoryQuantity, priceAmount]
  nextVariant,        \* number of the next ProductVariant row
  cartLines,          \* CartLine rows of the cart, in creation order
  cartTotalQuantity,  \* Cart.totalQuantity
  nextLine,           \* number of the next CartLine row
  discount,           \* the Discount row
  now,                \* the clock read by new Date()
  orders,             \* Order rows with their OrderItems and Payment: id -> record
  nextOrder,          \* number of the next Order row
  addresses,          \* number of Address rows
  reqs,               \* POST /orders requests in flight
  cancels,            \* POST /orders/:id/cancel requests in flight
  cartReqs,           \* cart line requests whose transaction is open
  preview,            \* the last response of POST /discount/validate
  throttle,           \* the order limiter: its Redis key and its admissions
  jobs,               \* the jobs of the 'orders' queue
  emails              \* order id -> outcome of its confirmation email

vars == <<variants, nextVariant, cartLines, cartTotalQuantity, nextLine,
          discount, now, orders, nextOrder, addresses, reqs, cancels, cartReqs,
          preview, throttle, jobs, emails>>

\* ----------------------------------------------------------------- helpers
Min(a, b) == IF a <= b THEN a ELSE b

\* Number.prototype.toFixed(2): a value in fine units rounded to the nearest
\* cent, the sign handled apart from the magnitude.
ToFixed2(x) ==
  IF x < 0 THEN 0 - ((0 - x + 50) \div 100)
           ELSE (x + 50) \div 100

\* String.prototype.toUpperCase on the payment method strings used here.
ToUpperCase(s) ==
  CASE s = "cod" -> "COD"
    [] s = "phonepe" -> "PHONEPE"
    [] s = "razorpay" -> "RAZORPAY"
    [] OTHER -> s

RECURSIVE SumQuantity(_)
\* tx.cartLine.aggregate({ _sum: { quantity: true } })
SumQuantity(lines) ==
  IF lines = <<>> THEN 0 ELSE Head(lines).quantity + SumQuantity(Tail(lines))

\* Number(line.priceAmount) * line.quantity, in fine units.
LineAmount(line) == line.priceAmount * 100 * line.quantity

RECURSIVE Subtotal(_)
\* cartLinesSource.reduce((sum, line) => sum + Number(line.priceAmount) *
\* line.quantity, 0)
Subtotal(lines) ==
  IF lines = <<>> THEN 0 ELSE LineAmount(Head(lines)) + Subtotal(Tail(lines))

\* ------------------------------------------------------------------ tables
\* The database tables a transaction reads and writes, as one value.
DB ==
  [addresses |-> addresses, orders |-> orders, nextOrder |-> nextOrder,
   variants |-> variants, cartLines |-> cartLines,
   cartTotalQuantity |-> cartTotalQuantity]

VariantsOf(vs, p) == {v \in DOMAIN vs : vs[v].productId = p}

\* tx.productVariant.findFirst({ where: { productId } }) has no orderBy: the
\* row it returns is any variant of the product, or null when there is none.
\* `first' is one such answer per product.
FirstVariants(vs) ==
  {first \in [Products -> AllVariantIds \cup {NULL}] :
     \A p \in Products :
        IF VariantsOf(vs, p) = {} THEN first[p] = NULL
                                  ELSE first[p] \in VariantsOf(vs, p)}

FindFirstVariant(first, productId) ==
  IF productId \in Products THEN first[productId] ELSE NULL

\* prisma.order.count({ where: { appliedDiscountId } })
UsedCount(os, discountId) ==
  Cardinality({o \in DOMAIN os : os[o].appliedDiscountId = discountId})

\* prisma.discount.findFirst of POST /orders: exact code, active, started
\* (a null startsAt never satisfies lte), not ended.
FindDiscount(code) ==
  /\ discount.code = code
  /\ discount.active
  /\ discount.startsAt # <<>>
  /\ discount.startsAt[1] <= now
  /\ (discount.endsAt = <<>> \/ discount.endsAt[1] >= now)

\* (mutant) a FIXED discount taken whole, without Math.min.
DiscountAmountUncapped(d, subtotal) ==
  IF d.type = "PERCENTAGE" THEN (subtotal * d.value) \div 100
  ELSE IF d.type = "FIXED" THEN d.value * 100 * 100
  ELSE 0

\* The discount computation of POST /orders, on fine units.  The value of a
\* PERCENTAGE discount is a whole percentage, that of a FIXED discount a
\* whole number of currency units.  subtotal is a whole number of cents, a
\* multiple of 100 fine units, so the division is exact.
DiscountAmount(d, subtotal) ==
  IF d.type = "PERCENTAGE" THEN (subtotal * d.value) \div 100
  ELSE IF d.type = "FIXED" THEN Min(d.value * 100 * 100, subtotal)
  ELSE 0

\* The COD surcharge of POST /orders.
AddCodSurcharge(subtotal, paymentMethod) ==
  IF paymentMethod # "" /\ ToUpperCase(paymentMethod) = "COD"
    THEN subtotal + COD_SURCHARGE * 100 * 100
    ELSE subtotal

\* ------------------------------------------------------- inventory ledger
\* (mutant) the update reaches every variant of the product of v.
AdjustProduct(vs, v, by) ==
  [w \in DOMAIN vs |->
     IF vs[w].productId = vs[v].productId
       THEN [vs[w] EXCEPT !.inventoryQuantity = vs[w].inventoryQuantity + by]
       ELSE vs[w]]

Adjust(vs, v, by) ==
  [vs EXCEPT ![v].inventoryQuantity = vs[v].inventoryQuantity + by]

RECURSIVE DecrementInventoryNoSkip(_, _, _)
\* (mutant) the loop without its customProductId test.
DecrementInventoryNoSkip(vs, lines, first) ==
  IF lines = <<>> THEN [ok |-> TRUE, variants |-> vs]
  ELSE LET item == Head(lines) IN
    IF item.variantId # NULL
      THEN IF item.variantId \in DOMAIN vs
             THEN DecrementInventoryNoSkip(
                    Adjust(vs, item.variantId, 0 - item.quantity), Tail(lines), first)
             ELSE [ok |-> FALSE, variants |-> vs]
    ELSE IF item.productId # NULL
      THEN LET variant == FindFirstVariant(first, item.productId) IN
           IF variant # NULL
             THEN DecrementInventoryNoSkip(
                    Adjust(vs, variant, 0 - item.quantity), Tail(lines), first)
             ELSE DecrementInventoryNoSkip(vs, Tail(lines), first)
    ELSE DecrementInventoryNoSkip(vs, Tail(lines), first)

RECURSIVE DecrementInventory(_, _, _)
\* The decrement loop of POST /orders.  tx.productVariant.update throws when
\* the row named by variantId does not exist; ok is then FALSE and variants
\* holds the decrements made before the throw.
DecrementInventory(vs, lines, first) ==
  IF lines = <<>> THEN [ok |-> TRUE, variants |-> vs]
  ELSE LET item == Head(lines) IN
    IF item.customProductId # NULL
      THEN DecrementInventory(vs, Tail(lines), first)
    ELSE IF item.variantId # NULL
      THEN IF item.variantId \in DOMAIN vs
             THEN DecrementInventory(Adjust(vs, item.variantId, 0 - item.quantity),
                                     Tail(lines), first)
             ELSE [ok |-> FALSE, variants |-> vs]
    ELSE IF item.productId # NULL
      THEN LET variant == FindFirstVariant(first, item.productId) IN
           IF variant # NULL
             THEN DecrementInventory(Adjust(vs, variant, 0 - item.quantity),
                                     Tail(lines), first)
             ELSE DecrementInventory(vs, Tail(lines), first)
    ELSE DecrementInventory(vs, Tail(lines), first)

RECURSIVE RestoreInventory(_, _, _)
\* The restore loop of POST /orders/:id/cancel.
RestoreInventory(vs, items, first) ==
  IF items = <<>> THEN [ok |-> TRUE, variants |-> vs]
  ELSE LET item == Head(items) IN
    IF item.customProductId # NULL
      THEN RestoreInventory(vs, Tail(items), first)
    ELSE IF item.variantId # NULL
      THEN IF item.variantId \in DOMAIN vs
             THEN RestoreInventory(Adjust(vs, item.variantId, item.quantity),
                                   Tail(items), first)
             ELSE [ok |-> FALSE, variants |-> vs]
    ELSE IF item.productId # NULL
      THEN LET variant == FindFirstVariant(first, item.productId) IN
           IF variant # NULL
             THEN RestoreInventory(Adjust(vs, variant, item.quantity),
                                   Tail(items), first)
             ELSE RestoreInventory(vs, Tail(items), first)
    ELSE RestoreInventory(vs, Tail(items), first)

\* What a transaction body changed in inventoryQuantity, per variant id
\* (history kept with the order, not a column).
InventoryDelta(before, after) ==
  [v \in AllVariantIds |->
     IF v \in DOMAIN before /\ v \in DOMAIN after
       THEN after[v].inventoryQuantity - before[v].inventoryQuantity
       ELSE 0]

NoDelta == [v \in AllVariantIds |-> 0]

\* ----------------------------------------------------------- transactions
\* (mutant) the writes made before the throw stay.
TransactionNoRollback(before, run) == run.db

\* prisma.$transaction(async (tx) => ...): the writes of the callback are
\* committed when it returns and discarded when it throws.
Transaction(before, run) == IF run.ok THEN run.db ELSE before

Threw(db) == [ok |-> FALSE, db |-> db]
Done(db) == [ok |-> TRUE, db |-> db]

NewAddresses(req) ==
  (IF req.shipping = "new" THEN 1 ELSE 0) + (IF req.billing = "new" THEN 1 ELSE 0)

\* Shipping and billing address of the create transaction.  Without an id
\* and without an address object the callback throws "Shipping address
\* required"; an injected failure is a throw of the last tx.address.create.
TxAddresses(db, req, failAt) ==
  IF req.shipping = "none" THEN Threw(db)
  ELSE IF failAt = "address" /\ NewAddresses(req) > 0
    THEN Threw([db EXCEPT !.addresses = db.addresses + NewAddresses(req) - 1])
  ELSE Done([db EXCEPT !.addresses = db.addresses + NewAddresses(req)])

OrderItemOf(line) ==
  [productId |-> line.productId, variantId |-> line.variantId,
   customProductId |-> line.customProductId, quantity |-> line.quantity,
   priceAmount |-> line.priceAmount, cartLineId |-> line.id]

\* tx.order.create with its nested items.
TxCreateOrder(db, req, failAt) ==
  IF failAt = "order" THEN Threw(db)
  ELSE Done([db EXCEPT
    !.nextOrder = db.nextOrder + 1,
    !.orders = [o \in DOMAIN db.orders \cup {OrderId(db.nextOrder)} |->
      IF o \in DOMAIN db.orders THEN db.orders[o]
      ELSE [status |-> "PENDING",
            totalAmount |-> req.totalAmount,
            appliedDiscountId |-> req.appliedDiscount,
            discountAmount |-> IF req.appliedDiscount # NULL
                                 THEN ToFixed2(req.discountAmount) ELSE 0,
            items |-> [i \in 1..Len(req.lines) |-> OrderItemOf(req.lines[i])],
            payment |-> [method |-> NULL, status |-> "NONE"],
            cancelReason |-> NULL,
            transaction |-> FALSE,
            inventoryDelta |-> NoDelta]]])

\* The decrement loop inside the create transaction.  An injected failure
\* is a throw of the loop's last update.
TxDecrement(db, req, first, failAt) ==
  LET lines == IF failAt = "inventory"
                 THEN SubSeq(req.lines, 1, Len(req.lines) - 1) ELSE req.lines
      loop == DecrementInventory(db.variants, lines, first)
      newId == OrderId(db.nextOrder - 1)
      after == [db EXCEPT
                  !.variants = loop.variants,
                  !.orders[newId].inventoryDelta =
                      InventoryDelta(db.variants, loop.variants)]
  IN IF loop.ok /\ failAt # "inventory" THEN Done(after) ELSE Threw(after)

\* The values of the column Payment.method; tx.payment.create throws on
\* any other.
PaymentMethod == {"COD", "STRIPE", "RAZORPAY", "PHONEPE", "PAYPAL"}

\* (mutant) only the external provider's payments start INITIATED.
TxCreatePaymentCodPaid(db, req, failAt) ==
  LET methodUpper == ToUpperCase(IF req.paymentMethod # "" THEN req.paymentMethod
                                                           ELSE "COD")
      isExternalProvider == methodUpper = "PHONEPE"
      newId == OrderId(db.nextOrder - 1)
  IN IF failAt = "payment" \/ methodUpper \notin PaymentMethod THEN Threw(db)
     ELSE Done([db EXCEPT !.orders[newId].payment =
            [method |-> methodUpper,
             status |-> IF isExternalProvider THEN "INITIATED" ELSE "PAID"]])

\* tx.payment.create.
TxCreatePayment(db, req, failAt) ==
  LET methodUpper == ToUpperCase(IF req.paymentMethod # "" THEN req.paymentMethod
                                                           ELSE "COD")
      isExternalProvider == methodUpper = "PHONEPE"
      newId == OrderId(db.nextOrder - 1)
  IN IF failAt = "payment" \/ methodUpper \notin PaymentMethod THEN Threw(db)
     ELSE Done([db EXCEPT !.orders[newId].payment =
            [method |-> methodUpper,
             status |-> IF methodUpper = "COD" \/ isExternalProvider
                          THEN "INITIATED" ELSE "PAID"]])

\* Clearing the server-side cart at the end of the create transaction.
TxClearCart(db, req, failAt) ==
  IF ~req.cartHadLines THEN Done(db)
  ELSE IF failAt = "cart" THEN Threw([db EXCEPT !.cartLines = <<>>])
  ELSE Done([db EXCEPT !.cartLines = <<>>, !.cartTotalQuantity = 0])

\* The callback passed to prisma.$transaction by POST /orders: the stages in
\* order, stopping at the first throw.
CreateOrderTx(db, req, first, failAt) ==
  LET s1 == TxAddresses(db, req, failAt)
      s2 == IF s1.ok THEN TxCreateOrder(s1.db, req, failAt) ELSE s1
      s3 == IF s2.ok THEN TxDecrement(s2.db, req, first, failAt) ELSE s2
      s4 == IF s3.ok THEN TxCreatePayment(s3.db, req, failAt) ELSE s3
      s5 == IF s4.ok THEN TxClearCart(s4.db, req, failAt) ELSE s4
  IN s5

\* The callback passed to prisma.$transaction by POST /orders/:id/cancel.
\* tx.order.update throws when the order row no longer exists.
CancelOrderTx(db, can, first, failAt) ==
  LET loop == RestoreInventory(db.variants, can.items, first)
      restored == [db EXCEPT !.variants = loop.variants]
  IN IF ~loop.ok \/ failAt = "inventory" THEN Threw(restored)
     ELSE IF failAt = "order" \/ can.orderId \notin DOMAIN db.orders
       THEN Threw(restored)
     ELSE Done([restored EXCEPT
            !.orders[can.orderId].status = "CANCELED",
            !.orders[can.orderId].cancelReason = "Canceled by customer",
            !.orders[can.orderId].inventoryDelta =
               [v \in AllVariantIds |->
                  db.orders[can.orderId].inventoryDelta[v]
                  + InventoryDelta(db.variants, loop.variants)[v]]])

WriteDB(db) ==
  /\ addresses' = db.addresses
  /\ orders' = db.orders
  /\ nextOrder' = db.nextOrder
  /\ variants' = db.variants
  /\ cartLines' = db.cartLines
  /\ cartTotalQuantity' = db.cartTotalQuantity

\* ------------------------------------------------------------------ inputs
\* Catalog prices in cents: Product.minPriceAmount and CustomProduct.price.
\* A variant row carries its own priceAmount.
Catalog == [minPriceAmount |-> [p \in Products |-> 125],
            customPrice |-> [c \in CustomProducts |-> 99900]]

Line(id, productId, variantId, customProductId, quantity, priceAmount) ==
  [id |-> id, productId |-> productId, variantId |-> variantId,
   customProductId |-> customProductId, quantity |-> quantity,
   priceAmount |-> priceAmount]

\* Request bodies of POST /cart/lines: a variant of a product, a product
\* alone, a custom product that also names a product and a variant.
AddLineBodies ==
  { [productId |-> "p1", variantId |-> "v1", customProductId |-> NULL],
    [productId |-> "p1", variantId |-> NULL, customProductId |-> NULL],
    [productId |-> "p1", variantId |-> "v1", customProductId |-> "c1"] }

\* cartSnapshot bodies of POST /orders (one line each): a variant line and a
\* line naming a variant that does not exist.
Snapshots ==
  { <<Line(NULL, "p1", "v1", NULL, 1, 100000)>>,
    <<Line(NULL, "p1", "gone", NULL, 1, 100000)>> }

\* cartSnapshot bodies the schema also accepts: every id is optional, so a
\* line may carry a variantId alone or no id at all.
BareSnapshots ==
  { <<Line(NULL, NULL, "v1", NULL, 1, 100000)>>,
    <<Line(NULL, NULL, NULL, NULL, 1, 100000)>> }

CreateFailures == {"none", "address", "order", "inventory", "payment", "cart"}
CancelFailures == {"none", "inventory", "order"}

IdleReq ==
  [pc |-> "idle", lines |-> <<>>, cartHadLines |-> FALSE, subtotal |-> 0,
   discountAmount |-> 0, appliedDiscount |-> NULL, totalAmount |-> 0,
   discountCode |-> "", paymentMethod |-> "", shipping |-> "id",
   billing |-> "omitted", status |-> 0, error |-> "", orderId |-> NULL]

NoPreview == [code |-> "", orderAmount |-> 0, status |-> 0, error |-> ""]

\* The limiter before its first request: Redis reachable, no key.  admitted
\* counts the requests passed on to the handler since the key was created;
\* counted holds the requests whose response has not finished yet.
NoHits == [redis |-> "up", hits |-> 0, resetTime |-> 0, admitted |-> 0,
           counted |-> {}]

JobIds == {"j1", "j2"}

WaitingJob ==
  [state |-> "waiting", attemptsMade |-> 0, stalledCounter |-> 0, orders |-> {}]

CartReqs == {"a1", "a2"}

NoWrite == [kind |-> "none", id |-> NULL, quantity |-> 0, line |-> NULL]

IdleCartReq == [pc |-> "idle", write |-> NoWrite, total |-> 0]

IdleCancel ==
  [pc |-> "idle", orderId |-> NULL, items |-> <<>>, status |-> 0]

Respond(status, error) == [IdleReq EXCEPT !.pc = "done", !.status = status,
                                          !.error = error]

InFlight == {r \in Reqs : reqs[r].pc \in {"discount", "tx"}}

\* -------------------------------------------------------------------- Init
SAVE10 ==
  [id |-> "d1", code |-> "SAVE10", type |-> "PERCENTAGE", value |-> 10,
   usageLimit |-> <<1>>, minOrderAmount |-> <<>>, active |-> TRUE,
   startsAt |-> <<0>>, endsAt |-> <<>>]

InitWith(d, lines) ==
  /\ variants = [v \in {VariantId(1), VariantId(2)} |->
                   [productId |-> "p1", inventoryQuantity |-> 1,
                    priceAmount |-> 100000]]
  /\ nextVariant = 3
  /\ cartLines = lines
  /\ cartTotalQuantity = SumQuantity(lines)
  /\ nextLine = Len(lines) + 1
  /\ discount = d
  /\ now = 0
  /\ orders = [o \in {} |-> 0]
  /\ nextOrder = 1
  /\ addresses = 0
  /\ reqs = [r \in Reqs |-> IdleReq]
  /\ cancels = [c \in Cancels |-> IdleCancel]
  /\ cartReqs = [a \in CartReqs |-> IdleCartReq]
  /\ preview = NoPreview
  /\ throttle = NoHits
  /\ jobs = [j \in JobIds |-> WaitingJob]
  /\ emails = <<>>

Init == InitWith(SAVE10, <<>>)

\* A cart filled by POST /cart/lines with a custom product that also names a
\* product and a variant, and with a product alone.
FilledCart ==
  << Line(LineId(1), "p1", "v1", "c1", 1, Catalog.customPrice["c1"]),
     Line(LineId(2), "p1", NULL, NULL, 1, Catalog.minPriceAmount["p1"]) >>

InitCheckout == InitWith(SAVE10, FilledCart)

\* ------------------------------------------------------------ POST /cart/lines
\* The handler's validation reads and its transaction, as one step.
AddLine(body, quantity) ==
  LET productId == body.productId
      variantId == body.variantId
      customProductId == body.customProductId
      matches == {i \in 1..Len(cartLines) :
                    /\ cartLines[i].productId = productId
                    /\ cartLines[i].variantId = variantId
                    /\ cartLines[i].customProductId = customProductId}
      priceAmount ==
        IF customProductId # NULL THEN Catalog.customPrice[customProductId]
        ELSE IF variantId # NULL THEN variants[variantId].priceAmount
        ELSE Catalog.minPriceAmount[productId]
      lines ==
        IF matches # {}
          THEN LET i == CHOOSE i \in matches : \A j \in matches : i <= j
               IN [cartLines EXCEPT ![i].quantity = cartLines[i].quantity + quantity]
          ELSE Append(cartLines, Line(LineId(nextLine), productId, variantId,
                                      customProductId, quantity, priceAmount))
  IN /\ productId # NULL \/ customProductId # NULL
     /\ quantity > 0
     /\ variantId # NULL => variantId \in DOMAIN variants
     /\ (productId # NULL /\ variantId # NULL) =>
           /\ variants[variantId].productId = productId
           /\ ~(variants[variantId].inventoryQuantity < quantity)
     /\ matches = {} => nextLine <= MaxCart
     /\ cartTotalQuantity + quantity <= MaxCart
     /\ cartLines' = lines
     /\ nextLine' = IF matches = {} THEN nextLine + 1 ELSE nextLine
     /\ cartTotalQuantity' = SumQuantity(lines)
     /\ UNCHANGED <<variants, nextVariant, discount, now, orders, nextOrder,
                    addresses, reqs, cancels, cartReqs, preview,
                    throttle, jobs, emails>>

\* ------------------------------------- cart line transactions, step by step
\* The transactions of the cart line handlers run at the database's default
\* isolation (READ COMMITTED): the write of a line and the aggregate that
\* follows it are one step, the cart update and the commit a later one.
\* Until the commit the written line is invisible to other transactions; a
\* row the transaction updated or deleted is locked, and another
\* transaction that writes that row waits for the commit.
RECURSIVE RemoveLine(_, _)
RemoveLine(lines, id) ==
  IF lines = <<>> THEN <<>>
  ELSE IF Head(lines).id = id THEN RemoveLine(Tail(lines), id)
  ELSE <<Head(lines)>> \o RemoveLine(Tail(lines), id)

ApplyWrite(lines, write) ==
  IF write.kind = "create" THEN Append(lines, write.line)
  ELSE IF write.kind = "update"
    THEN [i \in 1..Len(lines) |->
            IF lines[i].id = write.id
              THEN [lines[i] EXCEPT !.quantity = write.quantity] ELSE lines[i]]
  ELSE IF write.kind = "delete" THEN RemoveLine(lines, write.id)
  ELSE lines

LockedLines ==
  {cartReqs[a].write.id :
     a \in {b \in CartReqs : cartReqs[b].write.kind \in {"update", "delete"}}}

LineIds == {cartLines[i].id : i \in 1..Len(cartLines)}

CartTxBegin(a, write) ==
  /\ cartReqs[a].pc = "idle"
  /\ cartReqs' = [cartReqs EXCEPT ![a] =
       [pc |-> "tx", write |-> write,
        total |-> SumQuantity(ApplyWrite(cartLines, write))]]

\* POST /cart/lines up to the aggregate of its transaction.
AddLineBegin(a, body, quantity) ==
  LET productId == body.productId
      variantId == body.variantId
      customProductId == body.customProductId
      matches == {i \in 1..Len(cartLines) :
                    /\ cartLines[i].productId = productId
                    /\ cartLines[i].variantId = variantId
                    /\ cartLines[i].customProductId = customProductId}
      existing == cartLines[CHOOSE i \in matches : \A j \in matches : i <= j]
      priceAmount ==
        IF customProductId # NULL THEN Catalog.customPrice[customProductId]
        ELSE IF variantId # NULL THEN variants[variantId].priceAmount
        ELSE Catalog.minPriceAmount[productId]
      write ==
        IF matches # {}
          THEN [NoWrite EXCEPT !.kind = "update", !.id = existing.id,
                               !.quantity = existing.quantity + quantity]
          ELSE [NoWrite EXCEPT !.kind = "create",
                  !.line = Line(LineId(nextLine), productId, variantId,
                                customProductId, quantity, priceAmount)]
  IN /\ productId # NULL \/ customProductId # NULL
     /\ quantity > 0
     /\ variantId # NULL => variantId \in DOMAIN variants
     /\ (productId # NULL /\ variantId # NULL) =>
           /\ variants[variantId].productId = productId
           /\ ~(variants[variantId].inventoryQuantity < quantity)
     /\ matches # {} => /\ existing.id \notin LockedLines
                        /\ existing.quantity + quantity <= MaxCart
     /\ matches = {} => nextLine <= MaxCart
     /\ CartTxBegin(a, write)
     /\ nextLine' = IF matches = {} THEN nextLine + 1 ELSE nextLine
     /\ UNCHANGED <<variants, nextVariant, cartLines, cartTotalQuantity,
                    discount, now, orders, nextOrder, addresses, reqs, cancels,
                    preview, throttle, jobs, emails>>

\* PUT /cart/lines/:lineId up to the aggregate of its transaction; quantity
\* 0 deletes the line.
UpdateLineBegin(a, lineId, quantity) ==
  /\ quantity >= 0
  /\ lineId \in LineIds \ LockedLines
  /\ CartTxBegin(a, IF quantity = 0
                      THEN [NoWrite EXCEPT !.kind = "delete", !.id = lineId]
                      ELSE [NoWrite EXCEPT !.kind = "update", !.id = lineId,
                                           !.quantity = quantity])
  /\ UNCHANGED <<variants, nextVariant, cartLines, cartTotalQuantity, nextLine,
                 discount, now, orders, nextOrder, addresses, reqs, cancels,
                 preview, throttle, jobs, emails>>

\* DELETE /cart/lines/:lineId up to the aggregate of its transaction.
RemoveLineBegin(a, lineId) ==
  /\ lineId \in LineIds \ LockedLines
  /\ CartTxBegin(a, [NoWrite EXCEPT !.kind = "delete", !.id = lineId])
  /\ UNCHANGED <<variants, nextVariant, cartLines, cartTotalQuantity, nextLine,
                 discount, now, orders, nextOrder, addresses, reqs, cancels,
                 preview, throttle, jobs, emails>>

\* tx.cart.update with the aggregate read before, and the commit.
CartTxCommit(a) ==
  /\ cartReqs[a].pc = "tx"
  /\ cartLines' = ApplyWrite(cartLines, cartReqs[a].write)
  /\ cartTotalQuantity' = cartReqs[a].total
  /\ cartReqs' = [cartReqs EXCEPT ![a] = IdleCartReq]
  /\ UNCHANGED <<variants, nextVariant, nextLine, discount, now, orders,
                 nextOrder, addresses, reqs, cancels, preview,
                 throttle, jobs, emails>>

\* ---------------------------------------------------------------- POST /orders
\* Request bodies of POST /orders.
OrderBody(paymentMethod, discountCode, shipping, billing) ==
  [paymentMethod |-> paymentMethod, discountCode |-> discountCode,
   shipping |-> shipping, billing |-> billing]

OrderBodies ==
  { OrderBody("COD", "SAVE10", "id", "omitted"),
    OrderBody("", "", "new", "new"),
    OrderBody("cod", "", "none", "omitted") }

\* subtotal (after discount) to the req's totalAmount, ready for the
\* transaction: the COD surcharge and toFixed(2).
ReadyForTx(req) ==
  [req EXCEPT !.pc = "tx",
              !.totalAmount = ToFixed2(AddCodSurcharge(req.subtotal,
                                                       req.paymentMethod))]

\* The handler up to its first await after the cart fetch: the cart read,
\* the snapshot fallback, the empty-cart rejection and the subtotal.
BeginOrder(r, body, snapshot) ==
  LET cartLinesSource == IF cartLines # <<>> THEN cartLines ELSE snapshot
      req == [IdleReq EXCEPT
                !.lines = cartLinesSource,
                !.cartHadLines = (cartLines # <<>>),
                !.subtotal = Subtotal(cartLinesSource),
                !.paymentMethod = body.paymentMethod,
                !.discountCode = body.discountCode,
                !.shipping = body.shipping,
                !.billing = body.billing]
  IN /\ reqs[r].pc \in {"idle", "done", "admitted"}
     /\ reqs' = [reqs EXCEPT ![r] =
          IF cartLinesSource = <<>> THEN Respond(400, "Cart is empty")
          ELSE IF body.discountCode # "" THEN [req EXCEPT !.pc = "discount"]
          ELSE ReadyForTx(req)]
     /\ UNCHANGED <<variants, nextVariant, cartLines, cartTotalQuantity,
                    nextLine, discount, now, orders, nextOrder, addresses,
                    cancels, cartReqs, preview, throttle, jobs, emails>>

\* usedCount >= discount.usageLimit
LimitReached(d, usedCount) ==
  d.usageLimit # <<>> /\ usedCount >= d.usageLimit[1]

\* The discount lookup, the usage count and the discount computation.
CheckDiscount(r) ==
  LET req == reqs[r]
      discountAmount == DiscountAmount(discount, req.subtotal)
  IN /\ req.pc = "discount"
     /\ reqs' = [reqs EXCEPT ![r] =
          IF ~FindDiscount(req.discountCode) THEN ReadyForTx(req)
          ELSE IF LimitReached(discount, UsedCount(orders, discount.id))
            THEN Respond(400, "Discount code usage limit has been reached")
          ELSE ReadyForTx([req EXCEPT
                 !.discountAmount = discountAmount,
                 !.subtotal = req.subtotal - discountAmount,
                 !.appliedDiscount = discount.id])]
     /\ UNCHANGED <<variants, nextVariant, cartLines, cartTotalQuantity,
                    nextLine, discount, now, orders, nextOrder, addresses,
                    cancels, cartReqs, preview, throttle, jobs, emails>>

\* The transaction of POST /orders and the response.
CommitOrder(r, first, failAt) ==
  LET req == reqs[r]
      run == CreateOrderTx(DB, req, first, failAt)
      after == Transaction(DB, run)
  IN /\ req.pc = "tx"
     /\ WriteDB(after)
     /\ reqs' = [reqs EXCEPT ![r] =
          IF run.ok THEN [Respond(201, "") EXCEPT !.orderId = OrderId(nextOrder)]
                    ELSE Respond(500, "Internal Server Error")]
     /\ emails' = IF run.ok THEN emails @@ (OrderId(nextOrder) :> "pending")
                            ELSE emails
     /\ UNCHANGED <<nextVariant, nextLine, discount, now, cancels, cartReqs,
                    preview, throttle, jobs>>

\* ----------------------------------------------------- POST /orders/:id/cancel
\* The order read and the status check, before the transaction.
CancelRead(c, o) ==
  /\ cancels[c].pc \in {"idle", "done"}
  /\ o \in DOMAIN orders
  /\ cancels' = [cancels EXCEPT ![c] =
       IF orders[o].status \notin {"PENDING", "PROCESSING"}
         THEN [IdleCancel EXCEPT !.pc = "done", !.orderId = o, !.status = 400]
         ELSE [IdleCancel EXCEPT !.pc = "tx", !.orderId = o,
                                 !.items = orders[o].items]]
  /\ UNCHANGED <<variants, nextVariant, cartLines, cartTotalQuantity, nextLine,
                 discount, now, orders, nextOrder, addresses, reqs,
                 cartReqs, preview, throttle, jobs, emails>>

\* The transaction of the cancel handler and the response.
CancelCommit(c, first, failAt) ==
  LET can == cancels[c]
      run == CancelOrderTx(DB, can, first, failAt)
      after == Transaction(DB, run)
  IN /\ can.pc = "tx"
     /\ WriteDB(after)
     /\ cancels' = [cancels EXCEPT ![c] =
          [IdleCancel EXCEPT !.pc = "done", !.orderId = can.orderId,
                             !.status = IF run.ok THEN 200 ELSE 500]]
     /\ UNCHANGED <<nextVariant, nextLine, discount, now, reqs, cartReqs, preview,
                 throttle, jobs, emails>>

\* ------------------------------------------------------------ lib/email.js
\* What resend.emails.send does: it resolves with data, resolves with an
\* error, rejects, or is not called because no API key is configured.
EmailOutcomes == {"sent", "error", "throws", "mocked"}

\* (mutant) sendEmail without its try/catch.
SendEmailNoCatch(outcome) ==
  [threw |-> outcome = "throws", value |-> outcome = "sent"]

\* sendEmail: TRUE when the mail was sent, FALSE otherwise; it never throws.
SendEmail(outcome) == [threw |-> FALSE, value |-> outcome = "sent"]

\* sendOrderConfirmationEmail builds the mail from the order and its
\* included items and returns sendEmail(...).
SendOrderConfirmationEmail(outcome) == SendEmail(outcome)

Delivery(email) == IF ~email.threw /\ email.value THEN "sent" ELSE "failed"

\* The promise POST /orders leaves behind settles; its .catch logs.
SettleEmail(o, outcome) ==
  /\ o \in DOMAIN emails
  /\ emails[o] = "pending"
  /\ emails' = [emails EXCEPT ![o] = Delivery(SendOrderConfirmationEmail(outcome))]
  /\ UNCHANGED <<variants, nextVariant, cartLines, cartTotalQuantity, nextLine,
                 discount, now, orders, nextOrder, addresses, reqs, cancels,
                 cartReqs, preview, throttle, jobs>>

\* ------------------------------------------------ workers/order-processor.js
\* Job data of the 'orders' queue: orderData with its cartLinesSource.
Jobs ==
  ("j1" :> [cartLinesSource |-> <<Line(NULL, "p1", "v2", "c1", 1, 99900)>>,
            totalAmount |-> 99900, paymentMethod |-> "COD"]) @@
  ("j2" :> [cartLinesSource |-> <<Line(NULL, "p1", "v2", NULL, 1, 100000)>>,
            totalAmount |-> 100000, paymentMethod |-> "PHONEPE"])

RECURSIVE WorkerDecrementInventory(_, _, _)
\* The decrement loop of the order worker.
WorkerDecrementInventory(vs, lines, first) ==
  IF lines = <<>> THEN [ok |-> TRUE, variants |-> vs]
  ELSE LET item == Head(lines) IN
    IF item.customProductId # NULL
      THEN WorkerDecrementInventory(vs, Tail(lines), first)
    ELSE IF item.variantId # NULL
      THEN IF item.variantId \in DOMAIN vs
             THEN WorkerDecrementInventory(
                    Adjust(vs, item.variantId, 0 - item.quantity), Tail(lines), first)
             ELSE [ok |-> FALSE, variants |-> vs]
    ELSE IF item.productId # NULL
      THEN LET variant == FindFirstVariant(first, item.productId) IN
           IF variant # NULL
             THEN WorkerDecrementInventory(
                    Adjust(vs, variant, 0 - item.quantity), Tail(lines), first)
             ELSE WorkerDecrementInventory(vs, Tail(lines), first)
    ELSE WorkerDecrementInventory(vs, Tail(lines), first)

\* The callback passed to prisma.$transaction by the worker: order and
\* items, decrement loop, payment.
WorkerOrderTx(db, job, first, failAt) ==
  LET req == [IdleReq EXCEPT !.lines = job.cartLinesSource,
                             !.totalAmount = job.totalAmount,
                             !.paymentMethod = job.paymentMethod]
      s1 == TxCreateOrder(db, req, failAt)
      loop == WorkerDecrementInventory(s1.db.variants, req.lines, first)
      newId == OrderId(s1.db.nextOrder - 1)
      s2 == IF ~s1.ok THEN s1
            ELSE IF ~loop.ok \/ failAt = "inventory" THEN Threw(s1.db)
            ELSE Done([s1.db EXCEPT
                   !.variants = loop.variants,
                   !.orders[newId].inventoryDelta =
                       InventoryDelta(s1.db.variants, loop.variants)])
      s3 == IF s2.ok THEN TxCreatePayment(s2.db, req, failAt) ELSE s2
  IN s3

\* The worker takes a waiting job, or one that failed and has attempts
\* left, runs its transaction and awaits the confirmation email; what the
\* callback throws fails the job.
ProcessOrderJob(j, first, failAt, outcome) ==
  LET run == WorkerOrderTx(DB, Jobs[j], first, failAt)
      email == SendOrderConfirmationEmail(outcome)
      newId == OrderId(nextOrder)
  IN /\ \/ jobs[j].state = "waiting"
        \/ jobs[j].state = "failed" /\ jobs[j].attemptsMade < MaxAttempts
     /\ WriteDB(Transaction(DB, run))
     /\ jobs' = [jobs EXCEPT ![j] =
          [state |-> IF run.ok /\ ~email.threw THEN "completed" ELSE "failed",
           attemptsMade |-> @.attemptsMade + 1,
           stalledCounter |-> @.stalledCounter,
           orders |-> IF run.ok THEN @.orders \cup {newId} ELSE @.orders]]
     /\ emails' = IF run.ok THEN emails @@ (newId :> Delivery(email)) ELSE emails
     /\ UNCHANGED <<nextVariant, nextLine, discount, now, reqs, cancels, cartReqs,
                    preview, throttle>>

\* The worker process dies while it holds the job, after the transaction has
\* committed and before the job is marked completed: the lock of the job
\* expires and the queue puts the stalled job back to wait, at most
\* MaxStalled times.
StallOrderJob(j, first) ==
  LET run == WorkerOrderTx(DB, Jobs[j], first, "none")
      newId == OrderId(nextOrder)
  IN /\ \/ jobs[j].state = "waiting"
        \/ jobs[j].state = "failed" /\ jobs[j].attemptsMade < MaxAttempts
     /\ jobs[j].stalledCounter < MaxStalled
     /\ run.ok
     /\ WriteDB(Transaction(DB, run))
     /\ jobs' = [jobs EXCEPT ![j].state = "waiting",
                             ![j].stalledCounter = @ + 1,
                             ![j].orders = @ \cup {newId}]
     /\ UNCHANGED <<nextVariant, nextLine, discount, now, reqs, cancels, cartReqs,
                    preview, throttle, emails>>

\* ------------------------------------------------------- PUT /products/:id
\* "Variants - replace all": the product's variants are deleted and n new
\* ones created.  The foreign keys of CartLine.variantId and
\* OrderItem.variantId are ON DELETE SET NULL.
SetNullVariant(rows, gone) ==
  [i \in 1..Len(rows) |->
     IF rows[i].variantId \in gone THEN [rows[i] EXCEPT !.variantId = NULL]
                                   ELSE rows[i]]

ReplaceVariants(p, n) ==
  LET gone == VariantsOf(variants, p)
      created == {VariantId(k) : k \in nextVariant..(nextVariant + n - 1)}
  IN /\ nextVariant + n - 1 <= MaxVariants
     /\ variants' = [v \in (DOMAIN variants \ gone) \cup created |->
          IF v \in created
            THEN [productId |-> p, inventoryQuantity |-> 1,
                  priceAmount |-> 100000]
            ELSE variants[v]]
     /\ nextVariant' = nextVariant + n
     /\ cartLines' = SetNullVariant(cartLines, gone)
     /\ orders' = [o \in DOMAIN orders |->
          [orders[o] EXCEPT !.items = SetNullVariant(orders[o].items, gone)]]
     /\ UNCHANGED <<cartTotalQuantity, nextLine, discount, now, nextOrder,
                    addresses, reqs, cancels, cartReqs, preview,
                    throttle, jobs, emails>>

\* ------------------------------------------------------ PATCH /discount/:id
\* The admin update with a body that sets active (and repeats startsAt, which
\* the handler would otherwise reset to null).
UpdateDiscount(active) ==
  /\ discount' = [discount EXCEPT !.active = active]
  /\ UNCHANGED <<variants, nextVariant, cartLines, cartTotalQuantity, nextLine,
                 now, orders, nextOrder, addresses, reqs, cancels, cartReqs,
                 preview, throttle, jobs, emails>>

\* ----------------------------------------------------------- orderLimiter
\* The middleware rateLimit() builds from the options of orderLimiter, with
\* the RedisStore: the key of the one user is incremented, and created with
\* a time to live of windowMs when it does not exist; beyond max hits the
\* request is answered 429; skipFailedRequests takes the hit back when the
\* response finishes with a status of 400 or more.  No passOnStoreError is
\* set, so a rejected store command goes to next(error).
KeyExists == now < throttle.resetTime

OrderLimiter(r) ==
  LET totalHits == IF KeyExists THEN throttle.hits + 1 ELSE 1
      resetTime == IF KeyExists THEN throttle.resetTime ELSE now + windowMs
      admitted == IF KeyExists THEN throttle.admitted ELSE 0
  IN /\ reqs[r].pc \in {"idle", "done"}
     /\ r \notin throttle.counted
     /\ throttle.admitted < MaxAdmitted /\ throttle.hits <= MaxAdmitted
     /\ IF throttle.redis = "down"
          THEN /\ reqs' = [reqs EXCEPT ![r] = Respond(500, "Internal Server Error")]
               /\ UNCHANGED throttle
          ELSE /\ reqs' = [reqs EXCEPT ![r] =
                    IF totalHits > max
                      THEN Respond(429, "Too many orders created.")
                      ELSE [IdleReq EXCEPT !.pc = "admitted"]]
               /\ throttle' = [throttle EXCEPT
                    !.hits = totalHits,
                    !.resetTime = resetTime,
                    !.admitted = IF totalHits > max THEN admitted
                                                    ELSE admitted + 1,
                    !.counted = @ \cup {r}]
     /\ UNCHANGED <<variants, nextVariant, cartLines, cartTotalQuantity,
                    nextLine, discount, now, orders, nextOrder, addresses,
                    cancels, cartReqs, preview, jobs, emails>>

\* response.on('finish') of a request the limiter counted: the hit of a
\* response of status 400 or more is taken back (a key that has expired
\* meanwhile, or a store that rejects the command, leaves it).
OnFinish(r) ==
  /\ r \in throttle.counted
  /\ reqs[r].pc = "done"
  /\ throttle' = [throttle EXCEPT
       !.counted = @ \ {r},
       !.hits = IF reqs[r].status >= 400 /\ throttle.redis = "up" /\ KeyExists
                  THEN @ - 1 ELSE @]
  /\ UNCHANGED <<variants, nextVariant, cartLines, cartTotalQuantity, nextLine,
                 discount, now, orders, nextOrder, addresses, reqs, cancels,
                 cartReqs, preview, jobs, emails>>

\* Redis becomes unreachable, or reachable again.
SetRedis(state) ==
  /\ throttle.redis # state
  /\ throttle' = [throttle EXCEPT !.redis = state]
  /\ UNCHANGED <<variants, nextVariant, cartLines, cartTotalQuantity, nextLine,
                 discount, now, orders, nextOrder, addresses, reqs, cancels,
                 cartReqs, preview, jobs, emails>>

\* --------------------------------------------- POST /discount/validate
\* The discount codes a client sends: the stored spelling, lower case,
\* surrounded by blanks, and a code no discount has.
Codes == {"SAVE10", "save10", " SAVE10 ", "NOPE"}

\* code.trim().toUpperCase() on Codes.
Normalize(code) ==
  CASE code = "save10" -> "SAVE10"
    [] code = " SAVE10 " -> "SAVE10"
    [] OTHER -> code

\* The response of POST /discount/validate.  findUnique looks the trimmed,
\* upper-cased code up; a null startsAt or endsAt passes its test;
\* orderAmount is in fine units, minOrderAmount in cents.
ValidateResponse(code, orderAmount) ==
  IF code = "" THEN Respond(400, "Discount code is required")
  ELSE IF \/ discount.code # Normalize(code)
          \/ ~discount.active
          \/ (discount.startsAt # <<>> /\ discount.startsAt[1] > now)
          \/ (discount.endsAt # <<>> /\ discount.endsAt[1] < now)
    THEN Respond(400, "Invalid or expired discount code")
  ELSE IF LimitReached(discount, UsedCount(orders, discount.id))
    THEN Respond(400, "Discount code usage limit has been reached")
  ELSE IF /\ discount.minOrderAmount # <<>>
          /\ orderAmount < discount.minOrderAmount[1] * 100
    THEN Respond(400, "Minimum order amount for this discount")
  ELSE Respond(200, "")

ValidateDiscount(code, orderAmount) ==
  LET response == ValidateResponse(code, orderAmount)
  IN /\ preview' = [code |-> code, orderAmount |-> orderAmount,
                     status |-> response.status, error |-> response.error]
     /\ UNCHANGED <<variants, nextVariant, cartLines, cartTotalQuantity,
                    nextLine, discount, now, orders, nextOrder, addresses,
                    reqs, cancels, cartReqs, throttle, jobs, emails>>

\* new Date() grows between two requests.
Tick ==
  /\ now < MaxNow
  /\ now' = now + 1
  /\ UNCHANGED <<variants, nextVariant, cartLines, cartTotalQuantity, nextLine,
                 discount, orders, nextOrder, addresses, reqs, cancels,
                 cartReqs, preview, throttle, jobs, emails>>

\* ----------------------------------------------- writers of Order.status
OrderStatus ==
  {"PENDING", "PROCESSING", "SHIPPED", "DELIVERED", "CANCELED", "REFUNDED"}

\* PUT /orders/admin/:id/status: the status of the body is written as it is.
AdminUpdateStatus(o, status) ==
  /\ o \in DOMAIN orders
  /\ orders' = [orders EXCEPT ![o].status = status]
  /\ UNCHANGED <<variants, nextVariant, cartLines, cartTotalQuantity, nextLine,
                 discount, now, nextOrder, addresses, reqs, cancels,
                 cartReqs, preview, throttle, jobs, emails>>

\* PUT /orders/admin/:id with a status in its body.
AdminUpdateOrder(o, status) ==
  /\ o \in DOMAIN orders
  /\ orders' = [orders EXCEPT ![o].status = status]
  /\ UNCHANGED <<variants, nextVariant, cartLines, cartTotalQuantity, nextLine,
                 discount, now, nextOrder, addresses, reqs, cancels,
                 cartReqs, preview, throttle, jobs, emails>>

\* PUT /orders/admin/bulk-update with a status in its body: updateMany over
\* the orders named.
AdminBulkUpdate(orderIds, status) ==
  /\ orderIds \cap DOMAIN orders # {}
  /\ orders' = [o \in DOMAIN orders |->
       IF o \in orderIds THEN [orders[o] EXCEPT !.status = status]
                         ELSE orders[o]]
  /\ UNCHANGED <<variants, nextVariant, cartLines, cartTotalQuantity, nextLine,
                 discount, now, nextOrder, addresses, reqs, cancels,
                 cartReqs, preview, throttle, jobs, emails>>

\* DELETE /orders/admin/bulk-delete: the items, the payments and the orders
\* named by the body are deleted in one transaction; no inventory is
\* touched.
AdminBulkDelete(orderIds) ==
  /\ orderIds # {}
  /\ orders' = [o \in DOMAIN orders \ orderIds |-> orders[o]]
  /\ UNCHANGED <<variants, nextVariant, cartLines, cartTotalQuantity, nextLine,
                 discount, now, nextOrder, addresses, reqs, cancels,
                 cartReqs, preview, throttle, jobs, emails>>

\* POST /payment/initiate stores a Transaction row for the orderId of its
\* body; it reads neither the order nor its payment.
InitiatePayment(o) ==
  /\ o \in DOMAIN orders
  /\ ~orders[o].transaction
  /\ orders' = [orders EXCEPT ![o].transaction = TRUE]
  /\ UNCHANGED <<variants, nextVariant, cartLines, cartTotalQuantity, nextLine,
                 discount, now, nextOrder, addresses, reqs, cancels,
                 cartReqs, preview, throttle, jobs, emails>>

\* paymentStatusMap[phonepeStatus] || 'INITIATED'
MappedPaymentStatus(phonepeStatus) ==
  CASE phonepeStatus = "COMPLETED" -> "PAID"
    [] phonepeStatus = "FAILED" -> "FAILED"
    [] OTHER -> "INITIATED"

\* POST /payment/callback for the transaction of order o, the provider
\* reporting phonepeStatus.
PaymentCallback(o, phonepeStatus) ==
  LET mappedPaymentStatus == MappedPaymentStatus(phonepeStatus) IN
  /\ o \in DOMAIN orders
  /\ orders[o].transaction
  /\ orders' = [orders EXCEPT
       ![o].payment.status = mappedPaymentStatus,
       ![o].status = IF mappedPaymentStatus = "PAID" THEN "PROCESSING" ELSE @]
  /\ UNCHANGED <<variants, nextVariant, cartLines, cartTotalQuantity, nextLine,
                 discount, now, nextOrder, addresses, reqs, cancels,
                 cartReqs, preview, throttle, jobs, emails>>

\* POST /payment/verify/razorpay with a valid signature, for the transaction
\* of order o: the payment becomes PAID and the order PROCESSING.
VerifyRazorpay(o) ==
  /\ o \in DOMAIN orders
  /\ orders[o].transaction
  /\ orders' = [orders EXCEPT ![o].payment.status = "PAID",
                              ![o].status = "PROCESSING"]
  /\ UNCHANGED <<variants, nextVariant, cartLines, cartTotalQuantity, nextLine,
                 discount, now, nextOrder, addresses, reqs, cancels,
                 cartReqs, preview, throttle, jobs, emails>>

\* PUT /admin/payment/:paymentId: the payment status is written; PAID moves
\* the order to PROCESSING if it is still PENDING.
AdminUpdatePayment(o, status) ==
  /\ o \in DOMAIN orders
  /\ orders' = [orders EXCEPT
       ![o].payment.status = status,
       ![o].status = IF status = "PAID" /\ @ = "PENDING" THEN "PROCESSING" ELSE @]
  /\ UNCHANGED <<variants, nextVariant, cartLines, cartTotalQuantity, nextLine,
                 discount, now, nextOrder, addresses, reqs, cancels,
                 cartReqs, preview, throttle, jobs, emails>>

\* -------------------------------------------------------------------- Spec
\* The second request slot is used only while the first is in flight (the
\* two slots are interchangeable).
Concurrent(r) == r = "r1" \/ reqs["r1"].pc \in {"discount", "tx"}

\* Every request that has begun can still create its order within the bound.
Room(limit) == nextOrder + Cardinality(InFlight) <= limit

\* Checkout with two concurrent POST /orders requests on one cart.
Next ==
  \/ \E body \in AddLineBodies : AddLine(body, 1)
  \/ \E r \in Reqs, body \in OrderBodies, snapshot \in Snapshots \cup {<<>>} :
       Concurrent(r) /\ Room(MaxOrders) /\ BeginOrder(r, body, snapshot)
  \/ \E r \in Reqs : CheckDiscount(r)
  \/ \E r \in Reqs, first \in FirstVariants(variants), failAt \in CreateFailures :
       CommitOrder(r, first, failAt)

Spec == Init /\ [][Next]_vars

\* One POST /orders request at a time.
SerialOrder(bodies, snapshots, limit) ==
  \/ \E body \in bodies, snapshot \in snapshots :
       Room(limit) /\ BeginOrder("r1", body, snapshot)
  \/ CheckDiscount("r1")
  \/ \E first \in FirstVariants(variants), failAt \in CreateFailures :
       CommitOrder("r1", first, failAt)

CancelOrder ==
  \/ \E o \in DOMAIN orders : CancelRead("x1", o)
  \/ \E first \in FirstVariants(variants), failAt \in CancelFailures :
       CancelCommit("x1", first, failAt)

\* The life of an order: created from a filled cart or a snapshot by the
\* handler, or from a job by the worker at its first attempt and with its
\* email sent, then cancelled.
NextCheckout ==
  \/ SerialOrder(OrderBodies, Snapshots \cup {<<>>}, MaxOrdersSerial)
  \/ CancelOrder
  \/ \E j \in JobIds, first \in FirstVariants(variants),
        failAt \in CreateFailures, outcome \in {"sent"} :
       /\ Room(MaxOrdersSerial) /\ jobs[j].state = "waiting"
       /\ ProcessOrderJob(j, first, failAt, outcome)

SpecCheckout == InitCheckout /\ [][NextCheckout]_vars

\* Orders created and cancelled while the admin replaces the product's
\* variants.
NextCatalog ==
  \/ SerialOrder(OrderBodies, Snapshots \cup {<<>>}, MaxOrdersSerial)
  \/ CancelOrder
  \/ \E p \in Products, n \in 0..1 : ReplaceVariants(p, n)

SpecCatalog == InitCheckout /\ [][NextCatalog]_vars

\* Orders one after another, while the admin switches the discount on and off.
NextDiscount ==
  \/ \E body \in AddLineBodies : AddLine(body, 1)
  \/ SerialOrder(OrderBodies, Snapshots \cup {<<>>}, MaxOrders)
  \/ \E active \in BOOLEAN : UpdateDiscount(active)

SpecDiscount == Init /\ [][NextDiscount]_vars

\* Requests of POST /orders that pay through the external provider, with
\* and without a discount code.
StatusBodies == {OrderBody("PHONEPE", "SAVE10", "id", "omitted")}

CartBodies == {OrderBody("PHONEPE", "", "id", "omitted")}

\* Orders built from the persisted cart lines or from any cartSnapshot the
\* schema accepts.
NextSnapshot ==
  \/ \E body \in AddLineBodies : AddLine(body, 1)
  \/ SerialOrder(OrderBodies, Snapshots \cup BareSnapshots \cup {<<>>},
                 MaxOrdersSerial)

SpecSnapshot == Init /\ [][NextSnapshot]_vars

\* Discount records of the Discount table: startsAt null, now or later,
\* endsAt null or now, minOrderAmount null or 500.00, active or not.
PreviewDiscounts ==
  {[SAVE10 EXCEPT !.startsAt = startsAt, !.endsAt = endsAt,
                  !.minOrderAmount = minOrderAmount, !.active = active] :
     startsAt \in {<<>>, <<0>>, <<1>>}, endsAt \in {<<>>, <<0>>},
     minOrderAmount \in {<<>>, <<50000>>}, active \in BOOLEAN}

\* cartSnapshot bodies of one line of 1000.00 and of 100.00.
PreviewSnapshots ==
  {<<Line(NULL, "p1", "v1", NULL, 1, priceAmount)>> :
     priceAmount \in {100000, 10000}}

PreviewBodies == {OrderBody("PHONEPE", code, "id", "omitted") : code \in Codes}

InitPreview == \E d \in PreviewDiscounts : InitWith(d, <<>>)

\* The checkout page previews a code and the order is placed with it.
NextPreview ==
  \/ \E code \in Codes, snapshot \in PreviewSnapshots :
       ValidateDiscount(code, Subtotal(snapshot))
  \/ SerialOrder(PreviewBodies, PreviewSnapshots, MaxOrdersPreview)
  \/ Tick

SpecPreview == InitPreview /\ [][NextPreview]_vars

\* Orders created by the handler and by the worker, and their emails.
NextEmail ==
  \/ SerialOrder(StatusBodies, {<<>>}, MaxOrdersSerial)
  \/ \E j \in JobIds, first \in FirstVariants(variants),
        failAt \in CreateFailures, outcome \in EmailOutcomes :
       Room(MaxOrdersSerial) /\ ProcessOrderJob(j, first, failAt, outcome)
  \/ \E o \in DOMAIN emails, outcome \in EmailOutcomes : SettleEmail(o, outcome)

SpecEmail == InitCheckout /\ [][NextEmail]_vars

\* The jobs of the 'orders' queue with a worker that can die while it holds
\* a job.
NextWorker ==
  \/ \E j \in JobIds, first \in FirstVariants(variants),
        failAt \in CreateFailures, outcome \in EmailOutcomes :
       ProcessOrderJob(j, first, failAt, outcome)
  \/ \E j \in JobIds, first \in FirstVariants(variants) : StallOrderJob(j, first)

SpecWorker == Init /\ [][NextWorker]_vars

\* The payment methods a client sends: cash on delivery, none, providers
\* of the PaymentMethod column, and a string that is none of its values.
PaymentMethods ==
  {"COD", "", "PHONEPE", "phonepe", "RAZORPAY", "razorpay", "STRIPE", "CARD"}

PaymentBodies ==
  {OrderBody(paymentMethod, "SAVE10", "id", "omitted") :
     paymentMethod \in PaymentMethods}

\* Orders placed with every payment method.
NextPayment == SerialOrder(PaymentBodies, PreviewSnapshots, MaxOrdersSerial)

SpecPayment == Init /\ [][NextPayment]_vars

\* An order of one variant line and POST /orders/:id/cancel requests for it
\* that overlap.
NextCancel ==
  \/ SerialOrder(StatusBodies, PreviewSnapshots, MaxOrdersSerial)
  \/ \E c \in Cancels, o \in DOMAIN orders : CancelRead(c, o)
  \/ \E c \in Cancels, first \in FirstVariants(variants),
        failAt \in CancelFailures : CancelCommit(c, first, failAt)

SpecCancel == Init /\ [][NextCancel]_vars

\* POST /orders behind its limiter, one request at a time: requests that
\* end with 400 "Cart is empty", with 500 or with an order.
NextThrottle ==
  \/ \E state \in {"up", "down"} : SetRedis(state)
  \/ OrderLimiter("r1")
  \/ \E body \in CartBodies, snapshot \in PreviewSnapshots \cup {<<>>} :
       /\ reqs["r1"].pc = "admitted"
       /\ snapshot = <<>> \/ Room(MaxOrdersThrottle)
       /\ BeginOrder("r1", body, snapshot)
  \/ \E first \in FirstVariants(variants), failAt \in CreateFailures :
       CommitOrder("r1", first, failAt)
  \/ OnFinish("r1")
  \/ Tick

SpecThrottle == Init /\ [][NextThrottle]_vars

\* The second cart request slot is used only while the first has its
\* transaction open (the two slots are interchangeable).
ConcurrentCart(a) == a = "a1" \/ cartReqs["a1"].pc = "tx"

\* Cart line requests whose transactions overlap each other and the cart
\* clear of POST /orders.  The deleteMany of the cart clear waits for the
\* transactions that hold a lock on a line.
NextCart ==
  \/ \E a \in CartReqs, body \in AddLineBodies :
       ConcurrentCart(a) /\ AddLineBegin(a, body, 1)
  \/ \E a \in CartReqs, lineId \in LineIds, quantity \in 0..MaxCart :
       ConcurrentCart(a) /\ UpdateLineBegin(a, lineId, quantity)
  \/ \E a \in CartReqs, lineId \in LineIds :
       ConcurrentCart(a) /\ RemoveLineBegin(a, lineId)
  \/ \E a \in CartReqs : CartTxCommit(a)
  \/ \E body \in CartBodies :
       Room(MaxOrdersStatus) /\ BeginOrder("r1", body, <<>>)
  \/ \E first \in FirstVariants(variants), failAt \in CreateFailures :
       LockedLines = {} /\ CommitOrder("r1", first, failAt)

SpecCart == Init /\ [][NextCart]_vars

\* An order from its creation on, with every writer of its status.
NextStatus ==
  \/ SerialOrder(StatusBodies, {<<>>}, MaxOrdersStatus)
  \/ /\ \A v \in DOMAIN variants : variants[v].inventoryQuantity <= MaxStock
     /\ CancelOrder
  \/ \E o \in DOMAIN orders, status \in OrderStatus : AdminUpdateStatus(o, status)
  \/ \E o \in DOMAIN orders, status \in OrderStatus : AdminUpdateOrder(o, status)
  \/ \E orderIds \in SUBSET DOMAIN orders, status \in OrderStatus :
       AdminBulkUpdate(orderIds, status)
  \/ \E orderIds \in SUBSET DOMAIN orders : AdminBulkDelete(orderIds)
  \/ \E o \in DOMAIN orders : InitiatePayment(o)
  \/ \E o \in DOMAIN orders, phonepeStatus \in {"COMPLETED", "FAILED"} :
       PaymentCallback(o, phonepeStatus)
  \/ \E o \in DOMAIN orders : VerifyRazorpay(o)
  \/ \E o \in DOMAIN orders, status \in {"PAID", "FAILED"} :
       AdminUpdatePayment(o, status)

SpecStatus == InitCheckout /\ [][NextStatus]_vars

\* The amounts of an order, for each kind of discount and payment method.
\* The discounts an admin can store with POST /discount/create: a type and
\* any value, here without usage limit.
MathDiscounts ==
  {[SAVE10 EXCEPT !.type = type, !.value = value, !.usageLimit = <<>>] :
     type \in {"PERCENTAGE", "FIXED"}, value \in {10, 150}}

\* cartSnapshot bodies of one line of 1000.00, 999.00, 100.00 and 1.25.
MathSnapshots ==
  {<<Line(NULL, "p1", "v1", NULL, 1, priceAmount)>> :
     priceAmount \in {100000, 99900, 10000, 125}}

MathBodies ==
  { OrderBody("COD", "SAVE10", "id", "omitted"),
    OrderBody("cod", "", "id", "omitted"),
    OrderBody("PHONEPE", "SAVE10", "id", "omitted"),
    OrderBody("", "SAVE10", "id", "omitted") }

InitMath == \E d \in MathDiscounts : InitWith(d, <<>>)

NextMath == SerialOrder(MathBodies, MathSnapshots, MaxOrdersSerial)

SpecMath == InitMath /\ [][NextMath]_vars

\* ------------------------------------------------------------------ claims
Tables == <<addresses, orders, variants, cartLines, cartTotalQuantity>>

\* The POST /orders request r answers in this step with a failure of its
\* transaction.
CreateFailed(r) ==
  reqs[r].pc = "tx" /\ reqs'[r].pc = "done" /\ reqs'[r].status = 500

\* C1: order creation is all-or-nothing.  A step in which the create
\* transaction of a request fails at any stage (address, order and items,
\* an inventory decrement, payment, cart clear) leaves the Address, Order,
\* OrderItem and Payment rows, every inventoryQuantity, the cart lines and
\* Cart.totalQuantity as they were.
C1_CreateIsAtomic ==
  [][\A r \in Reqs : CreateFailed(r) => UNCHANGED Tables]_vars

\* A create transaction has failed while the cart had lines.
C1_Witness ==
  \E r \in Reqs : /\ reqs[r].pc = "done" /\ reqs[r].status = 500
                  /\ cartLines # <<>> /\ cartTotalQuantity > 0

\* C2: no overselling: no ProductVariant.inventoryQuantity is ever negative.
C2_NoOverselling ==
  \A v \in DOMAIN variants : variants[v].inventoryQuantity >= 0

LiveOrdersUsing(discountId) ==
  {o \in DOMAIN orders : /\ orders[o].appliedDiscountId = discountId
                         /\ orders[o].status # "CANCELED"}

\* C3: for a discount with usageLimit = K, at most K orders referencing the
\* discount are committed in a non-canceled state, under any interleaving of
\* POST /orders requests.
C3_DiscountCap ==
  discount.usageLimit # <<>> =>
     Cardinality(LiveOrdersUsing(discount.id)) <= discount.usageLimit[1]

\* C4: creating an order and then cancelling it leaves the inventoryQuantity
\* of every variant as it was before the order: what the order's create and
\* cancel transactions together changed is zero for every variant.
C4_CancelRestores ==
  \A o \in DOMAIN orders :
     orders[o].status = "CANCELED" =>
        \A v \in DOMAIN variants : orders[o].inventoryDelta[v] = 0

CartLinesOf(o) ==
  {orders[o].items[i].cartLineId : i \in 1..Len(orders[o].items)} \ {NULL}

\* C5: a cart line gives rise to at most one committed order: no two orders
\* have items copied from the same CartLine row.
C5_CartConsumedOnce ==
  \A o1, o2 \in DOMAIN orders :
     o1 # o2 => CartLinesOf(o1) \cap CartLinesOf(o2) = {}

\* The quantity by which a line without customProductId changes inventory:
\* its own quantity when it names a variant, or a product that has one.
StockQuantity(line) ==
  IF /\ line.customProductId = NULL
     /\ \/ line.variantId # NULL
        \/ line.productId # NULL /\ VariantsOf(variants, line.productId) # {}
    THEN line.quantity ELSE 0

RECURSIVE SumStockQuantity(_)
SumStockQuantity(lines) ==
  IF lines = <<>> THEN 0
  ELSE StockQuantity(Head(lines)) + SumStockQuantity(Tail(lines))

RECURSIVE SumInventory(_, _)
SumInventory(vs, ids) ==
  IF ids = {} THEN 0
  ELSE LET v == CHOOSE v \in ids : TRUE
       IN vs[v].inventoryQuantity + SumInventory(vs, ids \ {v})

Stock == SumInventory(variants, DOMAIN variants)

\* C6: lines with customProductId set never change inventory.  A committed
\* create transaction lowers the stock by exactly the quantities of the
\* lines without customProductId, a committed cancel transaction raises it by
\* exactly those, whatever productId or variantId the custom lines carry; a
\* step of the handler or of the worker that creates an order whose lines all
\* have customProductId leaves every variant as it was.
C6_CustomExempt ==
  [][/\ \A r \in Reqs :
          (reqs[r].pc = "tx" /\ reqs'[r].status = 201) =>
             Stock' = Stock - SumStockQuantity(reqs[r].lines)
     /\ \A c \in Cancels :
          (cancels[c].pc = "tx" /\ cancels'[c].status = 200) =>
             Stock' = Stock + SumStockQuantity(cancels[c].items)
     /\ \A o \in DOMAIN orders' \ DOMAIN orders :
          (\A i \in 1..Len(orders'[o].items) :
              orders'[o].items[i].customProductId # NULL) => variants' = variants
    ]_vars

\* An order with a custom line that also names a product and a variant has
\* been created and cancelled.
C6_Witness ==
  \E o \in DOMAIN orders :
     /\ orders[o].status = "CANCELED"
     /\ \E i \in 1..Len(orders[o].items) :
          /\ orders[o].items[i].customProductId # NULL
          /\ orders[o].items[i].variantId # NULL

\* The POST /orders request r answers 201 in this step.
Committed(r) ==
  reqs[r].pc = "tx" /\ reqs'[r].pc = "done" /\ reqs'[r].status = 201

\* The order created by the step in which request r answers 201.
NewOrder(r) == orders'[reqs'[r].orderId]

\* The undiscounted subtotal of an order, in fine units.
SubtotalOf(order) == Subtotal(order.items)

\* The COD surcharge in the total of the order of request r, in fine units.
SurchargeOf(r) ==
  IF ToUpperCase(reqs[r].paymentMethod) = "COD" THEN COD_SURCHARGE * 10000 ELSE 0

\* The amount the discount is stated to take off subtotal, in fine units:
\* subtotal * value / 100, or min(value, subtotal).
StatedDiscount(subtotal) ==
  IF discount.type = "PERCENTAGE" THEN (subtotal * discount.value) \div 100
  ELSE IF discount.value * 10000 <= subtotal THEN discount.value * 10000
  ELSE subtotal

\* C7 as stated: an order created with a discount stores discountAmount =
\* subtotal * value / 100 (PERCENTAGE) or min(value, subtotal) (FIXED), and
\* its stored total is subtotal - discountAmount, plus the COD surcharge
\* where one applies.
C7_DiscountMathExact ==
  [][\A r \in Reqs :
       (Committed(r) /\ NewOrder(r).appliedDiscountId # NULL) =>
          LET S == SubtotalOf(NewOrder(r)) IN
          /\ NewOrder(r).discountAmount * 100 = StatedDiscount(S)
          /\ NewOrder(r).totalAmount * 100
                = S - StatedDiscount(S) + SurchargeOf(r)
    ]_vars

\* C7 as amended: the stored discountAmount is that amount rounded to two
\* decimals, and the stored total is subtotal minus the unrounded amount,
\* plus the COD surcharge where one applies, rounded to two decimals.
C7_DiscountMathRounded ==
  [][\A r \in Reqs :
       (Committed(r) /\ NewOrder(r).appliedDiscountId # NULL) =>
          LET S == SubtotalOf(NewOrder(r)) IN
          /\ NewOrder(r).discountAmount = ToFixed2(StatedDiscount(S))
          /\ NewOrder(r).totalAmount
                = ToFixed2(S - StatedDiscount(S) + SurchargeOf(r))
    ]_vars

\* Two orders have been created with the 10% discount and no COD surcharge:
\* one of subtotal 1000.00, stored with discountAmount 100.00 and total
\* 900.00, and one of subtotal 1.25, stored with 0.13 and 1.13.
C7_Witness ==
  /\ discount.type = "PERCENTAGE" /\ discount.value = 10
  /\ \E o1, o2 \in DOMAIN orders :
       /\ orders[o1].appliedDiscountId = discount.id
       /\ orders[o1].payment.method = "PHONEPE"
       /\ SubtotalOf(orders[o1]) = 1000 * 10000
       /\ orders[o1].discountAmount = 10000 /\ orders[o1].totalAmount = 90000
       /\ orders[o2].appliedDiscountId = discount.id
       /\ orders[o2].payment.method = "PHONEPE"
       /\ SubtotalOf(orders[o2]) = 12500
       /\ orders[o2].discountAmount = 13 /\ orders[o2].totalAmount = 113

\* C8: the discounted subtotal is floored at zero: every order created has a
\* total before the COD surcharge that is not negative and a discountAmount
\* that is at most its undiscounted subtotal.
C8_FlooredAtZero ==
  [][\A r \in Reqs :
       Committed(r) =>
          /\ NewOrder(r).totalAmount * 100 - SurchargeOf(r) >= 0
          /\ NewOrder(r).discountAmount * 100 <= SubtotalOf(NewOrder(r))
    ]_vars

\* The discounted subtotal of request r before its transaction, in fine units.
DiscountedSubtotal(r) == SubtotalOf(NewOrder(r)) - reqs[r].discountAmount

\* C9 as stated: an order created by a request whose paymentMethod is COD has
\* total (subtotal - discountAmount) + 100 and a Payment with method COD and
\* status INITIATED.
C9_CodTotalExact ==
  [][\A r \in Reqs :
       (Committed(r) /\ ToUpperCase(reqs[r].paymentMethod) = "COD") =>
          /\ NewOrder(r).totalAmount * 100
                = DiscountedSubtotal(r) + COD_SURCHARGE * 10000
          /\ NewOrder(r).payment = [method |-> "COD", status |-> "INITIATED"]
    ]_vars

\* C9 as amended: the total is (subtotal - discountAmount) + 100 rounded to
\* two decimals.
C9_CodTotalRounded ==
  [][\A r \in Reqs :
       (Committed(r) /\ ToUpperCase(reqs[r].paymentMethod) = "COD") =>
          /\ NewOrder(r).totalAmount
                = ToFixed2(DiscountedSubtotal(r) + COD_SURCHARGE * 10000)
          /\ NewOrder(r).payment = [method |-> "COD", status |-> "INITIATED"]
    ]_vars

\* An order of subtotal 999.00 without discount has been created with COD:
\* total 1099.00, Payment COD and INITIATED.
C9_Witness ==
  \E o \in DOMAIN orders :
     /\ SubtotalOf(orders[o]) = 999 * 10000
     /\ orders[o].appliedDiscountId = NULL
     /\ orders[o].totalAmount = 109900
     /\ orders[o].payment = [method |-> "COD", status |-> "INITIATED"]

\* C10: once usageLimit orders reference the discount, a POST /orders request
\* carrying its code ends with 400 "Discount code usage limit has been
\* reached" and changes no table (a request whose transaction fails for
\* another reason and answers 500 aside).
C10_LimitRejects ==
  [][\A r \in Reqs :
       ( /\ reqs[r].pc \in {"discount", "tx"} /\ reqs'[r].pc = "done"
         /\ reqs'[r].status # 500
         /\ reqs[r].discountCode = discount.code
         /\ LimitReached(discount, UsedCount(orders, discount.id)) ) =>
          /\ reqs'[r].status = 400
          /\ reqs'[r].error = "Discount code usage limit has been reached"
          /\ UNCHANGED Tables
    ]_vars

Cancelable == {"PENDING", "PROCESSING"}

\* C11: a cancel request that ends while its order is in SHIPPED, DELIVERED,
\* CANCELED or REFUNDED answers 400 and leaves the order and every
\* inventoryQuantity as they were: a cancellation takes effect only on an
\* order that is PENDING or PROCESSING at that moment (a request whose
\* transaction fails and answers 500 aside).
C11_CancelOnlyCancelable ==
  [][\A c \in Cancels :
       ( /\ cancels'[c] # cancels[c] /\ cancels'[c].pc = "done"
         /\ cancels'[c].status # 500
         /\ cancels'[c].orderId \in DOMAIN orders
         /\ orders[cancels'[c].orderId].status \notin Cancelable ) =>
          /\ cancels'[c].status = 400
          /\ UNCHANGED <<orders, variants, cartReqs, preview,
                 throttle, jobs, emails>>
    ]_vars

\* The transitions of the order state machine.
Transitions ==
  {<<"PENDING", "PROCESSING">>, <<"PROCESSING", "SHIPPED">>,
   <<"SHIPPED", "DELIVERED">>, <<"PENDING", "CANCELED">>,
   <<"PROCESSING", "CANCELED">>} \cup {<<from, "REFUNDED">> : from \in OrderStatus}

\* C12: every step that changes the status of an order makes one of the
\* transitions PENDING->PROCESSING, PROCESSING->SHIPPED, SHIPPED->DELIVERED,
\* PENDING|PROCESSING->CANCELED, any->REFUNDED.
C12_StateMachine ==
  [][\A o \in DOMAIN orders \cap DOMAIN orders' :
       orders'[o].status # orders[o].status =>
          <<orders[o].status, orders'[o].status>> \in Transitions
    ]_vars

\* C13: Cart.totalQuantity equals the sum of the quantities of the cart's
\* lines in every state, whatever the interleaving of add-line, update-line,
\* remove-line and the cart clear of order creation.
C13_CartQuantity == cartTotalQuantity = SumQuantity(cartLines)

\* C14: every OrderItem of a committed order references a catalog product
\* (productId) or a custom product (customProductId), never neither,
\* whether the order was built from cart lines or from a cartSnapshot.
C14_ItemHasReference ==
  \A o \in DOMAIN orders : \A i \in 1..Len(orders[o].items) :
     \/ orders[o].items[i].productId # NULL
     \/ orders[o].items[i].customProductId # NULL

\* The step of request r that looks its discount code up.
LooksUp(r) == reqs[r].pc = "discount" /\ reqs'[r].pc # "discount"

\* Request r goes on to its transaction with the discount applied.
Applies(r) == reqs'[r].pc = "tx" /\ reqs'[r].appliedDiscount = discount.id

\* C15: for every discount record, code, order subtotal and point in time,
\* POST /discount/validate accepts the code exactly when POST /orders with
\* the same code and subtotal applies the discount.
C15_PreviewMatchesOrder ==
  [][\A r \in Reqs : LooksUp(r) =>
       (Applies(r) <=>
          ValidateResponse(reqs[r].discountCode, reqs[r].subtotal).status = 200)
    ]_vars

\* A code that is unknown, inactive, before its startsAt or after its endsAt.
InvalidCode(code) ==
  \/ discount.code # Normalize(code)
  \/ ~discount.active
  \/ (discount.startsAt # <<>> /\ now < discount.startsAt[1])
  \/ (discount.endsAt # <<>> /\ now > discount.endsAt[1])

\* C16: a POST /orders whose discountCode is unknown, inactive, before its
\* startsAt or after its endsAt answers 400 at the lookup and goes on to no
\* transaction, so that no order ignoring the code is committed.
C16_InvalidCodeRejected ==
  [][\A r \in Reqs : (LooksUp(r) /\ InvalidCode(reqs[r].discountCode)) =>
       (reqs'[r].pc = "done" /\ reqs'[r].status = 400 /\ UNCHANGED Tables)
    ]_vars

\* C17: no committed order has appliedDiscountId set to a discount whose
\* minOrderAmount is set and greater than the undiscounted subtotal of the
\* order.
C17_MinOrderAmount ==
  \A o \in DOMAIN orders :
     ( /\ orders[o].appliedDiscountId = discount.id
       /\ discount.minOrderAmount # <<>> ) =>
        SubtotalOf(orders[o]) >= discount.minOrderAmount[1] * 100

\* C18: the limiter passes at most 10 requests of one key on to the
\* handler while the key lives (one window of 10 minutes), however the
\* requests end.
C18_AtMostMaxAdmitted == throttle.admitted <= max

\* C19: a request that reaches the limiter while Redis is unreachable is
\* passed on to the handler.
C19_FailsOpen ==
  [][\A r \in Reqs :
       ( /\ reqs[r].pc \in {"idle", "done"} /\ reqs'[r] # reqs[r]
         /\ throttle.redis = "down" ) => reqs'[r].pc = "admitted"
    ]_vars

\* The confirmation email of order o fails in this step.
EmailFails(o) ==
  emails'[o] = "failed" /\ (o \notin DOMAIN emails \/ emails[o] # "failed")

\* C20: on both order-creation paths a confirmation email that fails after
\* the commit leaves the order and every table as committed, leaves the
\* answer of the request 201 and the job completed, and no job ever creates
\* more than one order.
C20_EmailIsolated ==
  /\ [](\A j \in JobIds : Cardinality(jobs[j].orders) <= 1)
  /\ [][\A o \in DOMAIN emails' : EmailFails(o) =>
          /\ o \in DOMAIN orders'
          /\ o \in DOMAIN orders => UNCHANGED <<Tables, reqs, jobs>>
          /\ \A j \in JobIds : o \in jobs'[j].orders => jobs'[j].state = "completed"
          /\ \A r \in Reqs : reqs'[r].orderId = o => reqs'[r].status = 201
      ]_vars

\* An order of the worker and an order of the handler whose emails failed.
C20_Witness ==
  /\ \E j \in JobIds : \E o \in jobs[j].orders :
       o \in DOMAIN emails /\ emails[o] = "failed" /\ jobs[j].state = "completed"
  /\ \E r \in Reqs :
       /\ reqs[r].status = 201 /\ reqs[r].orderId \in DOMAIN emails
       /\ emails[reqs[r].orderId] = "failed"

\* C21: no step removes a committed order, its items or its payment, so
\* the number of orders that reference the discount never decreases.
C21_OrdersPermanent ==
  [][ /\ \A o \in DOMAIN orders :
           /\ o \in DOMAIN orders'
           /\ Len(orders'[o].items) = Len(orders[o].items)
      /\ UsedCount(orders', discount.id) >= UsedCount(orders, discount.id)
    ]_vars

\* C22: a POST /orders request that carries neither shippingAddressId nor
\* shippingAddress is answered 400 and changes no table.
C22_MissingAddressIs400 ==
  [][\A r \in Reqs :
       ( /\ reqs[r].pc = "tx" /\ reqs[r].shipping = "none"
         /\ reqs'[r].pc = "done" ) =>
          (reqs'[r].status = 400 /\ UNCHANGED Tables)
    ]_vars

\* by added to the entry of variant v.
Moved(delta, v, by) == [delta EXCEPT ![v] = delta[v] + by]

RECURSIVE Targets(_, _, _, _)
\* The changes of inventoryQuantity, per variant, that the claim allows for
\* the lines of an order: sign times the quantity on the variant of a line
\* with variantId, on one variant of the product of a line with productId
\* alone, nothing when the product has no variant.  With skipCustom the
\* lines with customProductId count for nothing.
Targets(lines, vs, sign, skipCustom) ==
  IF lines = <<>> THEN {NoDelta}
  ELSE LET line == Head(lines)
           rest == Targets(Tail(lines), vs, sign, skipCustom)
           by == sign * line.quantity
       IN IF skipCustom /\ line.customProductId # NULL THEN rest
          ELSE IF line.variantId # NULL
            THEN {Moved(delta, line.variantId, by) : delta \in rest}
          ELSE IF line.productId # NULL /\ VariantsOf(vs, line.productId) # {}
            THEN {Moved(delta, v, by) :
                    delta \in rest, v \in VariantsOf(vs, line.productId)}
          ELSE rest

\* The inventory change of every step that creates an order (handler or
\* worker) or commits a cancellation is one of those Targets allows.
TargetsHit(skipCustom) ==
  /\ \A o \in DOMAIN orders' \ DOMAIN orders :
       InventoryDelta(variants, variants')
          \in Targets(orders'[o].items, variants, -1, skipCustom)
  /\ \A c \in Cancels :
       (cancels[c].pc = "tx" /\ cancels'[c].status = 200) =>
          InventoryDelta(variants, variants')
             \in Targets(cancels[c].items, variants, 1, skipCustom)

ExternalProviders == {"PHONEPE", "RAZORPAY", "STRIPE"}

\* C24: the Payment created with an order whose method names an external
\* provider has status INITIATED.
C24_ExternalStartsInitiated ==
  [][\A o \in DOMAIN orders' \ DOMAIN orders :
       orders'[o].payment.method \in ExternalProviders =>
          orders'[o].payment.status = "INITIATED"
    ]_vars

\* C29: the total of every order committed with Payment.method COD, the
\* default of an omitted paymentMethod included, contains the COD surcharge.
C29_SurchargeMatchesMethod ==
  [][\A r \in Reqs :
       (Committed(r) /\ NewOrder(r).payment.method = "COD") =>
          NewOrder(r).totalAmount
             = ToFixed2(DiscountedSubtotal(r) + COD_SURCHARGE * 10000)
    ]_vars

RECURSIVE BookedLines(_, _)
\* The quantity the lines of an order hold of the stock vs: that of the
\* lines without customProductId that name a variant, or a product that has
\* one.
BookedLines(vs, lines) ==
  IF lines = <<>> THEN 0
  ELSE LET line == Head(lines)
       IN (IF /\ line.customProductId = NULL
              /\ \/ line.variantId # NULL
                 \/ line.productId # NULL /\ VariantsOf(vs, line.productId) # {}
             THEN line.quantity ELSE 0) + BookedLines(vs, Tail(lines))

RECURSIVE Booked(_, _, _)
\* The quantity held by the orders ids of os that are not CANCELED.
Booked(vs, os, ids) ==
  IF ids = {} THEN 0
  ELSE LET o == CHOOSE o \in ids : TRUE
       IN (IF os[o].status # "CANCELED" THEN BookedLines(vs, os[o].items) ELSE 0)
          + Booked(vs, os, ids \ {o})

\* C25: inventoryQuantity plus the quantities of the lines of the orders
\* that exist and are not CANCELED is the initial stock: summed over the
\* variants, no step changes it (the statement per variant implies this
\* one).
C25_StockAccounting ==
  [][SumInventory(variants', DOMAIN variants')
       + Booked(variants', orders', DOMAIN orders')
     = SumInventory(variants, DOMAIN variants)
       + Booked(variants, orders, DOMAIN orders)
    ]_vars

\* C26: whatever the interleaving of the cancel requests for an order, what
\* they add back to a variant never exceeds what the creation of the order
\* took from it.
C26_RestoredAtMostOnce ==
  \A o \in DOMAIN orders : \A v \in AllVariantIds :
     orders[o].inventoryDelta[v] <= 0

\* A step of one of the payment routes.
PaymentEvent ==
  \/ \E o \in DOMAIN orders, phonepeStatus \in {"COMPLETED", "FAILED"} :
       PaymentCallback(o, phonepeStatus)
  \/ \E o \in DOMAIN orders : VerifyRazorpay(o)
  \/ \E o \in DOMAIN orders, status \in {"PAID", "FAILED"} :
       AdminUpdatePayment(o, status)

\* C27: a payment callback, a provider verification or an admin payment
\* update leaves a CANCELED order CANCELED.
C27_CanceledIsTerminal ==
  [][PaymentEvent =>
       \A o \in DOMAIN orders :
          orders[o].status = "CANCELED" => orders'[o].status = "CANCELED"
    ]_vars

RECURSIVE Taken(_, _)
\* What the orders os took from the stock of variant v.
Taken(os, v) ==
  IF os = {} THEN 0
  ELSE LET o == CHOOSE o \in os : TRUE
       IN (0 - orders[o].inventoryDelta[v]) + Taken(os \ {o}, v)

RECURSIVE Ordered(_, _)
\* The quantity the lines order of variant v.
Ordered(lines, v) ==
  IF lines = <<>> THEN 0
  ELSE (IF Head(lines).customProductId = NULL /\ Head(lines).variantId = v
          THEN Head(lines).quantity ELSE 0) + Ordered(Tail(lines), v)

\* C28: however often a job is run again, after a failure before or after
\* the commit of its transaction, at most one order (with its payment)
\* exists for the job and each variant is decremented by the quantity of
\* the job's lines at most once.
C28_RetryIdempotent ==
  \A j \in JobIds :
     LET os == jobs[j].orders \cap DOMAIN orders IN
     /\ Cardinality(os) <= 1
     /\ \A v \in DOMAIN variants :
          Taken(os, v) <= Ordered(Jobs[j].cartLinesSource, v)

\* C30: when the commit of an order empties the cart, every cart line it
\* deletes is an item of that order, with the quantity the line had.
C30_NoLineLost ==
  [][\A o \in DOMAIN orders' \ DOMAIN orders :
       cartLines' = <<>> =>
         \A i \in 1..Len(cartLines) :
            \E k \in 1..Len(orders'[o].items) :
               /\ orders'[o].items[k].cartLineId = cartLines[i].id
               /\ orders'[o].items[k].quantity = cartLines[i].quantity
    ]_vars

====
